---- MODULE Spec2Model ----
(***************************************************************************)
(* Flask-Discord: DiscordOAuth2Session (flask_discord/client.py).          *)
(*                                                                         *)
(* One browser session (the Flask `session` mapping) talks to one client   *)
(* object.  The state is the session mapping, the process-wide users       *)
(* cache and a record of the operation that ran last (what it returned or  *)
(* raised, and how many calls it made to the token endpoint and to the     *)
(* REST API).  The cache is shared by every browser: `parked` is the       *)
(* session of a second browser, and `inflight` a fetch_user request that   *)
(* runs step by step while other requests are served.                      *)
(***************************************************************************)
EXTENDS Integers, Sequences, FiniteSets, TLC

VARIABLES session, users_cache, attached, parked, inflight, last

vars == <<session, users_cache, attached, parked, inflight, last>>

(***************************************************************************)
(* Bounds.                                                                 *)
(***************************************************************************)
\* create_session is not called once the stored state is a JWT nested this deep.
MaxChain == 2

(***************************************************************************)
(* Python values.                                                          *)
(***************************************************************************)
\* A typed Python scalar: its type, its number (int, bool, Permissions) and
\* its text (str).  None is PyNone.
PyNone == [type |-> "NoneType", value |-> 0, text |-> ""]
PyInt(n) == [type |-> "int", value |-> n, text |-> ""]
PyBool(b) == [type |-> "bool", value |-> IF b THEN 1 ELSE 0, text |-> ""]
PyPermissions(n) == [type |-> "Permissions", value |-> n, text |-> ""]
PyStr(t) == [type |-> "str", value |-> 0, text |-> t]

\* Python truthiness of a typed scalar.
Truthy(v) ==
    IF v.type = "NoneType" THEN FALSE
    ELSE IF v.type = "str" THEN v.text # ""
    ELSE IF v.type = "Permissions" THEN TRUE
    ELSE v.value # 0

\* isinstance(v, int): bool is a subclass of int.
IsInt(v) == v.type \in {"int", "bool"}

(***************************************************************************)
(* The keyword parameters of create_session and their JSON image.          *)
(* A mapping is a function from its key set to the repr of a Python value. *)
(***************************************************************************)
EmptyParams == <<>>

Params ==
    { EmptyParams,
      "next" :> "'/home'",
      "next" :> "('a', 'b')",
      ("next" :> "'/home'") @@ ("exp" :> "1") }

\* json.loads(json.dumps(v)): a tuple comes back as a list.
JsonValue(v) == IF v = "('a', 'b')" THEN "['a', 'b']" ELSE v

JsonObject(p) == [k \in DOMAIN p |-> JsonValue(p[k])]

\* The payloads a JWT can carry.
Payloads == { JsonObject(p) : p \in Params }

(***************************************************************************)
(* State strings.                                                          *)
(* generate_token() yields a raw token; jwt.encode(payload, key) yields a  *)
(* JWT.  A state string is [gen, chain]: the raw token at the root of the  *)
(* signing keys, and the payloads signed on top of it, innermost first.    *)
(* chain = <<>> is the raw token itself; the JWT with payload p signed     *)
(* with key k is [gen |-> k.gen, chain |-> Append(k.chain, p)].            *)
(***************************************************************************)
RawTokens == {"r1", "r2"}

NoState == [gen |-> "None", chain |-> <<>>]

RawState(r) == [gen |-> r, chain |-> <<>>]

IsJwt(s) == s.chain # <<>>

SigningKey(s) == [gen |-> s.gen, chain |-> SubSeq(s.chain, 1, Len(s.chain) - 1)]

SignedPayload(s) == s.chain[Len(s.chain)]

\* jwt.encode(params, key) with the default HS256.
jwt_encode(params, key) == [gen |-> key.gen, chain |-> Append(key.chain, JsonObject(params))]

\* What a request carries in ?state=: the string the signature was made
\* over (sig) and the payload segment it carries now (body).  They differ
\* when the payload segment was replaced after signing.
NoPassedState == [sig |-> NoState, body |-> EmptyParams]

Untampered(s) == [sig |-> s, body |-> IF IsJwt(s) THEN SignedPayload(s) ELSE EmptyParams]

\* The registered claims jwt.decode validates by default: exp is a POSIX
\* time, and 1 is in the past.
ClaimsError(payload) ==
    IF "exp" \in DOMAIN payload /\ payload["exp"] = "1" THEN "ExpiredSignatureError" ELSE ""

\* jwt.decode(passed, key): [error, payload].
jwt_decode(passed, key) ==
    IF passed.sig = NoState \/ ~IsJwt(passed.sig)
    THEN [error |-> "DecodeError", payload |-> EmptyParams]
    ELSE IF key = NoState
    THEN [error |-> "TypeError", payload |-> EmptyParams]
    ELSE IF SigningKey(passed.sig) # key \/ SignedPayload(passed.sig) # passed.body
    THEN [error |-> "InvalidSignatureError", payload |-> EmptyParams]
    ELSE IF ClaimsError(passed.body) # ""
    THEN [error |-> ClaimsError(passed.body), payload |-> EmptyParams]
    ELSE [error |-> "", payload |-> passed.body]

\* The errors of jwt.decode that say the state did not verify.
InvalidStateErrors == {"DecodeError", "InvalidSignatureError", "ExpiredSignatureError"}

(***************************************************************************)
(* The Flask session: a mapping from the keys present to their values.     *)
(***************************************************************************)
RAW_STATE == "DISCORD_RAW_OAUTH2_STATE"
OAUTH2_STATE == "DISCORD_OAUTH2_STATE"
OAUTH2_TOKEN == "DISCORD_OAUTH2_TOKEN"
USER_ID == "DISCORD_USER_ID"

EmptySession == <<>>

SessionGet(s, k, default) == IF k \in DOMAIN s THEN s[k] ELSE default

SessionSet(s, k, v) == [x \in (DOMAIN s) \cup {k} |-> IF x = k THEN v ELSE s[x]]

SessionPop(s, k) == [x \in (DOMAIN s) \ {k} |-> s[x]]

(***************************************************************************)
(* Configuration and collaborators (flask_discord/configs.py, _http.py,    *)
(* models.py).                                                             *)
(***************************************************************************)
DISCORD_OAUTH_DEFAULT_SCOPES == {"identify"}

DISCORD_PASSTHROUGH_SCOPES == {"bot"}

\* The session keys revoke() walks over.
SESSION_KEYS == <<USER_ID, RAW_STATE, OAUTH2_STATE, OAUTH2_TOKEN>>

\* Token records the token endpoint hands out, and whose they are.
TokenRecords == {"tokenA", "tokenB"}

UserIds == {"u1", "u2"}

UserOfToken(t) == IF t = "tokenA" THEN "u1" ELSE "u2"

\* self.user_id: the identity kept in the session, None when there is none.
user_id(sess) == SessionGet(sess, USER_ID, "None")

(***************************************************************************)
(* Token store.                                                            *)
(***************************************************************************)
\* A save that keeps a record already stored (session.setdefault).
save_authorization_token_keeping(sess, token) ==
    IF OAUTH2_TOKEN \in DOMAIN sess THEN sess ELSE SessionSet(sess, OAUTH2_TOKEN, token)

save_authorization_token(sess, token) == SessionSet(sess, OAUTH2_TOKEN, token)

\* A get that reads a key nothing writes.
get_authorization_token_misspelled(sess) == SessionGet(sess, "DISCORD_OAUTH_TOKEN", "None")

get_authorization_token(sess) == SessionGet(sess, OAUTH2_TOKEN, "None")

\* OAuth2Session.authorized of the session _make_session() builds from the
\* stored token: it has an access token.
authorized(sess) == get_authorization_token(sess) \in TokenRecords

(***************************************************************************)
(* create_session.                                                         *)
(***************************************************************************)
\* The fallback without its last alternative.
EffectiveScope_without_default(scope, requestScope) ==
    IF scope # {} THEN scope ELSE requestScope

\* scope or request.args.get("scope", str()).split() or the default scopes.
\* A scope list is its set of scopes; None and [] are {}.
EffectiveScope(scope, requestScope) ==
    IF scope # {} THEN scope
    ELSE IF requestScope # {} THEN requestScope
    ELSE DISCORD_OAUTH_DEFAULT_SCOPES

\* The guard of the first raise with its comparison of prompt inverted.
PassthroughRejected_inverted(prompt, scope) ==
    prompt = "consent" /\ (scope \cap DISCORD_PASSTHROUGH_SCOPES) # {}

\* The guard of the first raise.
PassthroughRejected(prompt, scope) ==
    prompt # "consent" /\ (scope \cap DISCORD_PASSTHROUGH_SCOPES) # {}

\* The guard of the second raise.
PermissionsRejected(permissions) ==
    permissions # PyNone /\ ~(permissions.type = "Permissions" \/ IsInt(permissions))

\* permissions = permissions.value for a discord.Permissions.
PermissionsValue(permissions) ==
    IF permissions.type = "Permissions" THEN PyInt(permissions.value) ELSE permissions

\* session['DISCORD_RAW_OAUTH2_STATE'] = session.get("DISCORD_OAUTH2_STATE", generate_token())
RawStateFor(sess, fresh) == SessionGet(sess, OAUTH2_STATE, RawState(fresh))

\* The two session writes of create_session: the raw state, then the state
\* the authorization URL carries.
StoreStates(sess, params, fresh) ==
    LET s1 == SessionSet(sess, RAW_STATE, RawStateFor(sess, fresh))
        state == jwt_encode(params, SessionGet(s1, RAW_STATE, NoState))
    IN  SessionSet(s1, OAUTH2_STATE, state)

\* An authorization URL: the state and scope the OAuth2 session put in it and
\* the query parameters added after them, in order.
NoUrl == [built |-> FALSE, state |-> NoState, scope |-> {}, query |-> <<>>]

QueryParam(name, v) == [name |-> name, value |-> v]

add_params_to_uri(url, params) == [url EXCEPT !.query = @ \o params]

\* uri_params and the two add_params_to_uri calls.
AuthorizationUrl(state, scope, prompt, permissions, guild_id, disable_guild_select) ==
    LET base == [built |-> TRUE, state |-> state, scope |-> scope, query |-> <<>>]
        uri_params ==
            <<QueryParam("prompt", PyStr(prompt))>>
            \o (IF Truthy(permissions) THEN <<QueryParam("permissions", permissions)>> ELSE <<>>)
            \o (IF Truthy(guild_id) THEN <<QueryParam("guild_id", guild_id)>> ELSE <<>>)
            \o (IF disable_guild_select # PyNone
                THEN <<QueryParam("disable_guild_select", disable_guild_select)>> ELSE <<>>)
        first == add_params_to_uri(base, uri_params)
    IN  IF Truthy(permissions)
        THEN add_params_to_uri(first, <<QueryParam("permissions", permissions)>>)
        ELSE first

\* The arguments of one create_session call, with the inbound request's
\* scope argument and the token generate_token() returns.
DefaultArgs ==
    [scope |-> {}, requestScope |-> {}, prompt |-> "consent", permissions |-> PyNone,
     guild_id |-> PyNone, disable_guild_select |-> PyNone, params |-> EmptyParams,
     fresh |-> "r1"]

\* The calls vary the scope and prompt, or the permissions, or the keyword
\* parameters, or the arguments that only reach the URL.
CreateSessionCalls ==
    { [DefaultArgs EXCEPT !.scope = s, !.requestScope = q, !.prompt = p] :
        s \in {{}, {"identify"}, {"identify", "bot"}}, q \in {{}, {"bot"}},
        p \in {"consent", "none"} }
    \cup
    { [DefaultArgs EXCEPT !.permissions = m, !.scope = s] :
        m \in {PyInt(0), PyInt(8), PyInt(-1), PyPermissions(8), PyStr("8")},
        s \in {{}, {"bot"}} }
    \cup
    { [DefaultArgs EXCEPT !.params = k] : k \in Params }
    \cup
    { [DefaultArgs EXCEPT !.permissions = m, !.guild_id = g, !.disable_guild_select = d] :
        m \in {PyNone, PyInt(8)}, g \in {PyNone, PyInt(42)}, d \in {PyNone, PyBool(FALSE)} }

CreateSessionArgs == { [c EXCEPT !.fresh = r] : c \in CreateSessionCalls, r \in RawTokens }

\* create_session(sess, a): the session after it, what it raised ("" when it
\* returned) and the URL it redirects to.
create_session(sess, a) ==
    LET scope == EffectiveScope(a.scope, a.requestScope)
    IN  IF PassthroughRejected(a.prompt, scope)
        THEN [session |-> sess, raised |-> "ValueError: passthrough scopes", url |-> NoUrl]
        ELSE IF PermissionsRejected(a.permissions)
        THEN [session |-> sess, raised |-> "ValueError: permissions", url |-> NoUrl]
        ELSE LET after == StoreStates(sess, a.params, a.fresh)
             IN  [session |-> after,
                  raised |-> "",
                  url |-> AuthorizationUrl(after[OAUTH2_STATE], scope, a.prompt,
                                           PermissionsValue(a.permissions),
                                           a.guild_id, a.disable_guild_select)]

(***************************************************************************)
(* callback.                                                               *)
(***************************************************************************)
\* self._fetch_token(): one call to the token endpoint, which answers with a
\* token record or with an error.
GrantOutcomes == TokenRecords \cup {"error"}

\* The inbound callback request: its error value ("" when it has none) and
\* its state argument.
CallbackRequest(error, state) == [error |-> error, state |-> state]

\* A callback that decodes the state without verifying its signature.
callback_unverified(sess, req, grant) ==
    IF req.error # ""
    THEN [session |-> sess, raised |-> "", text |-> req.error,
          params |-> EmptyParams, exchanged |-> 0]
    ELSE IF grant = "error"
    THEN [session |-> sess, raised |-> "OAuth2Error", text |-> "",
          params |-> EmptyParams, exchanged |-> 1]
    ELSE [session |-> save_authorization_token(sess, grant),
          raised |-> IF IsJwt(req.state.sig) THEN "" ELSE "DecodeError",
          text |-> "",
          params |-> IF IsJwt(req.state.sig) THEN req.state.body ELSE EmptyParams,
          exchanged |-> 1]

\* A callback that exchanges the code before it looks at the error value.
callback_exchanging_first(sess, req, grant) ==
    IF grant = "error"
    THEN [session |-> sess, raised |-> "OAuth2Error", text |-> "",
          params |-> EmptyParams, exchanged |-> 1]
    ELSE IF req.error # ""
    THEN [session |-> save_authorization_token(sess, grant), raised |-> "",
          text |-> req.error, params |-> EmptyParams, exchanged |-> 1]
    ELSE LET saved == save_authorization_token(sess, grant)
             decoded == jwt_decode(req.state, SessionGet(saved, RAW_STATE, NoState))
         IN  [session |-> saved, raised |-> decoded.error, text |-> "",
              params |-> decoded.payload, exchanged |-> 1]

\* callback(sess, req, grant): the session after it, what it raised, the
\* string or the mapping it returned, and the calls to the token endpoint.
callback(sess, req, grant) ==
    IF req.error # ""
    THEN [session |-> sess, raised |-> "", text |-> req.error,
          params |-> EmptyParams, exchanged |-> 0]
    ELSE IF grant = "error"
    THEN [session |-> sess, raised |-> "OAuth2Error", text |-> "",
          params |-> EmptyParams, exchanged |-> 1]
    ELSE LET saved == save_authorization_token(sess, grant)
             raw_oauth_state == SessionGet(saved, RAW_STATE, NoState)
             decoded == jwt_decode(req.state, raw_oauth_state)
         IN  [session |-> saved, raised |-> decoded.error, text |-> "",
              params |-> decoded.payload, exchanged |-> 1]

(***************************************************************************)
(* revoke.                                                                 *)
(***************************************************************************)
\* A revoke that leaves the cache alone.
CachePop_skipped(cache, sess) == cache

\* self.users_cache.pop(self.user_id, None)
CachePop(cache, sess) == cache \ {user_id(sess)}

\* The loop without its try/except: the first missing key ends it.
RECURSIVE PopKeys_strict(_, _)
PopKeys_strict(sess, keys) ==
    IF keys = <<>> THEN [session |-> sess, raised |-> ""]
    ELSE IF Head(keys) \notin DOMAIN sess THEN [session |-> sess, raised |-> "KeyError"]
    ELSE PopKeys_strict(SessionPop(sess, Head(keys)), Tail(keys))

\* for session_key in keys: try: session.pop(session_key) except KeyError: pass
RECURSIVE PopKeys(_, _)
PopKeys(sess, keys) ==
    IF keys = <<>> THEN [session |-> sess, raised |-> ""]
    ELSE PopKeys(SessionPop(sess, Head(keys)), Tail(keys))

revoke(cache, sess) ==
    LET popped == PopKeys(sess, SESSION_KEYS)
    IN  [cache |-> CachePop(cache, sess), session |-> popped.session, raised |-> popped.raised]

(***************************************************************************)
(* fetch_user.                                                             *)
(***************************************************************************)
\* models.User.get_from_cache(): the cached user of the current identity, or None.
get_from_cache(cache, sess) == IF user_id(sess) \in cache THEN user_id(sess) ELSE "None"

\* The configured ceiling of the users cache (DISCORD_USERS_CACHE_MAX_LIMIT).
DISCORD_USERS_CACHE_MAX_LIMIT == 1

\* The entry a full cache gives up for a new key: the eviction policy picks
\* one of the entries it holds.  No entry goes when the key is already cached
\* or the cache has room.
NoVictim == "None"

Victims(cache, user) ==
    IF user \notin cache /\ Cardinality(cache) >= DISCORD_USERS_CACHE_MAX_LIMIT
    THEN cache ELSE {NoVictim}

\* An insertion that never evicts.
CacheInsert_unbounded(cache, user, victim) == cache \cup {user}

\* users_cache[user.id] = user
CacheInsert(cache, user, victim) == (cache \ {victim}) \cup {user}

\* What a REST call meets: whether the API answers, and the entry the cache
\* gives up if the answer has to be inserted into a full cache.
Environments(cache, sess) ==
    {[reachable |-> b, victim |-> v] :
        b \in BOOLEAN,
        v \in IF authorized(sess)
              THEN Victims(cache, UserOfToken(get_authorization_token(sess)))
              ELSE {NoVictim}}

\* The REST call of models.User.fetch_from_api(): the user of the stored token.
UserFromApi(sess, env) ==
    IF authorized(sess) /\ env.reachable
    THEN [raised |-> "", user |-> UserOfToken(get_authorization_token(sess))]
    ELSE [raised |-> IF authorized(sess) THEN "HTTPError" ELSE "Unauthorized", user |-> "None"]

\* models.User.fetch_from_api(): one call to the REST API with the stored
\* token; the user it returns becomes the current identity and is cached.
fetch_from_api(cache, sess, env) ==
    LET got == UserFromApi(sess, env)
    IN  IF got.raised = ""
        THEN [cache |-> CacheInsert(cache, got.user, env.victim),
              session |-> SessionSet(sess, USER_ID, got.user),
              raised |-> "", user |-> got.user, upstream |-> 1]
        ELSE [cache |-> cache, session |-> sess, raised |-> got.raised,
              user |-> "None", upstream |-> 1]

\* A fetch_user that never consults the cache.
fetch_user_uncached(cache, sess, env) == fetch_from_api(cache, sess, env)

\* models.User.get_from_cache() or models.User.fetch_from_api()
fetch_user(cache, sess, env) ==
    IF get_from_cache(cache, sess) # "None"
    THEN [cache |-> cache, session |-> sess, raised |-> "",
          user |-> get_from_cache(cache, sess), upstream |-> 0]
    ELSE fetch_from_api(cache, sess, env)

(***************************************************************************)
(* fetch_guilds and fetch_connections.                                     *)
(***************************************************************************)
\* The lists of a cached user: user.guilds and user.connections, each None
\* until fetched, then the list of the user whose token fetched it.
NoLists == [guilds |-> "None", connections |-> "None"]

\* The cached entries after an operation: those left in the cache keep their
\* lists, a user just fetched from the API is a new object without lists.
Entries(att, cache, fetched) ==
    [u \in cache |-> IF u = fetched \/ u \notin DOMAIN att THEN NoLists ELSE att[u]]

\* models.Guild.fetch_from_api() and models.UserConnection.fetch_from_api():
\* one call to the REST API with the stored token; the list is attached to
\* the cached user of the current identity, if there is one, and returned.
list_from_api(att, cache, sess, kind, reachable) ==
    IF authorized(sess) /\ reachable
    THEN LET list == UserOfToken(get_authorization_token(sess))
             user == get_from_cache(cache, sess)
         IN  [attached |-> IF user = "None" THEN att
                           ELSE [att EXCEPT ![user] = [@ EXCEPT ![kind] = list]],
              raised |-> "", list |-> list, upstream |-> 1]
    ELSE [attached |-> att,
          raised |-> IF authorized(sess) THEN "HTTPError" ELSE "Unauthorized",
          list |-> "None", upstream |-> 1]

\* The lookup without its try/except: reading the list of a missing user raises.
cached_list_strict(att, cache, sess, kind, reachable) ==
    LET user == get_from_cache(cache, sess)
    IN  IF user = "None"
        THEN [attached |-> att, raised |-> "AttributeError", list |-> "None", upstream |-> 0]
        ELSE IF att[user][kind] # "None"
        THEN [attached |-> att, raised |-> "", list |-> att[user][kind], upstream |-> 0]
        ELSE list_from_api(att, cache, sess, kind, reachable)

\* user = get_from_cache(); try: if user.<kind> is not None: return user.<kind>
\* except AttributeError: pass; return <Kind>.fetch_from_api()
cached_list(att, cache, sess, kind, reachable) ==
    LET user == get_from_cache(cache, sess)
    IN  IF user # "None" /\ att[user][kind] # "None"
        THEN [attached |-> att, raised |-> "", list |-> att[user][kind], upstream |-> 0]
        ELSE list_from_api(att, cache, sess, kind, reachable)

fetch_connections(att, cache, sess, reachable) ==
    cached_list(att, cache, sess, "connections", reachable)

fetch_guilds(att, cache, sess, reachable) ==
    cached_list(att, cache, sess, "guilds", reachable)

(***************************************************************************)
(* The state machine.                                                      *)
(***************************************************************************)
\* A fetch_user request in flight: it saw a cache miss (pc "missed") with its
\* copy of the session and has yet to call the API and insert the user.  The
\* API call touches nothing shared, so the call and the insertion are one
\* step.  swapped tells that the other browser is the current one by now,
\* overtaken that a revoke for the identity being fetched ran since the
\* request began.
NoFlight == [pc |-> "idle", session |-> EmptySession, swapped |-> FALSE, overtaken |-> FALSE]

\* The identities a revoke of this session is for: the one its token belongs
\* to and the one it has recorded.
IdentitiesOf(sess) ==
    ({user_id(sess)} \cup
     (IF authorized(sess) THEN {UserOfToken(get_authorization_token(sess))} ELSE {}))
    \cap UserIds

\* The record of the operation that ran last: the session and cache it
\* started from, its arguments or request, what
\* it raised ("" when it returned), what it returned (a string, a mapping, a
\* token record or a URL) and the calls it made to the token endpoint and to
\* the REST API.  seq tells two runs of the same operation apart.
NoArgs ==
    [scope |-> {}, requestScope |-> {}, prompt |-> "", permissions |-> PyNone,
     guild_id |-> PyNone, disable_guild_select |-> PyNone, params |-> EmptyParams,
     fresh |-> ""]

NoRequest == [error |-> "", state |-> NoPassedState]

Idle ==
    [seq |-> 0, op |-> "init",
     before |-> [session |-> EmptySession, users_cache |-> {}, attached |-> <<>>],
     args |-> NoArgs, request |-> NoRequest, raised |-> "",
     text |-> "", params |-> EmptyParams, token |-> "None", exchanged |-> 0,
     upstream |-> 0, url |-> NoUrl]

Ran(op, result) == [f \in DOMAIN Idle |->
    IF f = "seq" THEN 1 - last.seq
    ELSE IF f = "before"
    THEN [session |-> session, users_cache |-> users_cache, attached |-> attached]
    ELSE IF f = "op" THEN op
    ELSE IF f \in DOMAIN result THEN result[f]
    ELSE Idle[f]]

Init ==
    /\ session = EmptySession
    /\ users_cache = {}
    /\ attached = <<>>
    /\ parked = EmptySession
    /\ inflight = NoFlight
    /\ last = Idle

\* The depth of the state now stored: create_session nests it one deeper.
StoredDepth == Len(SessionGet(session, OAUTH2_STATE, NoState).chain)

DoCreateSession ==
    /\ StoredDepth < MaxChain
    /\ \E a \in CreateSessionArgs :
          \* generate_token() is random; its value matters when it is stored.
          /\ (OAUTH2_STATE \in DOMAIN session => a.fresh = "r1")
          /\ LET r == create_session(session, a)
             IN  /\ session' = r.session
                 /\ last' = Ran("create_session", [args |-> a, raised |-> r.raised, url |-> r.url])
    /\ UNCHANGED <<users_cache, attached, parked, inflight>>

\* The state arguments a callback request can carry: none, a state string this
\* session holds, a JWT signed with some raw token, or the stored state with
\* its payload replaced.
StoredState == SessionGet(session, OAUTH2_STATE, NoState)

PassedStates ==
    {NoPassedState, Untampered(StoredState), Untampered(SessionGet(session, RAW_STATE, NoState))}
    \cup {Untampered(jwt_encode("next" :> "'/home'", RawState(r))) : r \in RawTokens}
    \cup {[sig |-> StoredState, body |-> b] : b \in {EmptyParams, "next" :> "'/admin'"}}

CallbackRequests ==
    {CallbackRequest("", state) : state \in PassedStates}
    \cup {CallbackRequest("access_denied", state) : state \in {NoPassedState, Untampered(StoredState)}}

DoCallback ==
    /\ \E request \in CallbackRequests, grant \in GrantOutcomes :
          LET r == callback(session, request, grant)
          IN  /\ session' = r.session
              /\ last' = Ran("callback", [request |-> request, raised |-> r.raised,
                                         text |-> r.text, params |-> r.params,
                                         exchanged |-> r.exchanged])
    /\ UNCHANGED <<users_cache, attached, parked, inflight>>

DoRevoke ==
    LET r == revoke(users_cache, session)
    IN  /\ users_cache' = r.cache
        /\ attached' = Entries(attached, r.cache, "None")
        /\ session' = r.session
        /\ inflight' = IF inflight.pc = "missed"
                          /\ IdentitiesOf(session) \cap IdentitiesOf(inflight.session) # {}
                       THEN [inflight EXCEPT !.overtaken = TRUE]
                       ELSE inflight
        /\ last' = Ran("revoke", [raised |-> r.raised])
        /\ UNCHANGED parked

DoSaveToken ==
    /\ \E token \in TokenRecords \cup {"None"} :
          /\ session' = save_authorization_token(session, token)
          /\ last' = Ran("save_authorization_token", [token |-> token])
    /\ UNCHANGED <<users_cache, attached, parked, inflight>>

DoGetToken ==
    /\ last' = Ran("get_authorization_token", [token |-> get_authorization_token(session)])
    /\ UNCHANGED <<session, users_cache, attached, parked, inflight>>

DoAuthorized ==
    /\ last' = Ran("authorized", [text |-> IF authorized(session) THEN "True" ELSE "False"])
    /\ UNCHANGED <<session, users_cache, attached, parked, inflight>>

\* The user a fetch_user result put into the cache, if it did.
Fetched(r) == IF r.upstream = 1 /\ r.raised = "" THEN r.user ELSE "None"

DoFetchUser ==
    /\ \E env \in Environments(users_cache, session) :
          LET r == fetch_user(users_cache, session, env)
          IN  /\ users_cache' = r.cache
              /\ attached' = Entries(attached, r.cache, Fetched(r))
              /\ session' = r.session
              /\ last' = Ran("fetch_user", [raised |-> r.raised, text |-> r.user,
                                           upstream |-> r.upstream])
    /\ UNCHANGED <<parked, inflight>>

DoFetchGuilds ==
    /\ \E reachable \in BOOLEAN :
          LET r == fetch_guilds(attached, users_cache, session, reachable)
          IN  /\ attached' = r.attached
              /\ last' = Ran("fetch_guilds", [raised |-> r.raised, text |-> r.list,
                                             upstream |-> r.upstream])
    /\ UNCHANGED <<session, users_cache, parked, inflight>>

DoFetchConnections ==
    /\ \E reachable \in BOOLEAN :
          LET r == fetch_connections(attached, users_cache, session, reachable)
          IN  /\ attached' = r.attached
              /\ last' = Ran("fetch_connections", [raised |-> r.raised, text |-> r.list,
                                                  upstream |-> r.upstream])
    /\ UNCHANGED <<session, users_cache, parked, inflight>>

\* The next request comes from the other browser.
DoSwitch ==
    /\ session' = parked
    /\ parked' = session
    /\ inflight' = IF inflight.pc = "missed"
                   THEN [inflight EXCEPT !.swapped = ~@]
                   ELSE inflight
    /\ last' = Ran("switch", [raised |-> ""])
    /\ UNCHANGED <<users_cache, attached>>

\* A fetch_user request finds no cached user and goes on to call the API
\* while other requests are served.
DoFetchUserBegin ==
    /\ inflight.pc = "idle"
    /\ get_from_cache(users_cache, session) = "None"
    /\ inflight' = [pc |-> "missed", session |-> session, swapped |-> FALSE,
                    overtaken |-> FALSE]
    /\ last' = Ran("fetch_user begins", [raised |-> ""])
    /\ UNCHANGED <<session, users_cache, attached, parked>>

\* The request in flight gets its answer and inserts it; its response carries
\* its copy of the session back to its browser.
DoFetchUserFinish ==
    /\ inflight.pc = "missed"
    /\ \E env \in Environments(users_cache, inflight.session) :
          LET r == fetch_from_api(users_cache, inflight.session, env)
          IN  /\ users_cache' = r.cache
              /\ attached' = Entries(attached, r.cache, Fetched(r))
              /\ session' = IF inflight.swapped THEN session ELSE r.session
              /\ parked' = IF inflight.swapped THEN r.session ELSE parked
              /\ inflight' = NoFlight
              /\ last' = Ran("fetch_user finishes", [raised |-> r.raised, text |-> r.user,
                                                    upstream |-> r.upstream])

Next ==
    \/ DoCreateSession
    \/ DoCallback
    \/ DoRevoke
    \/ DoSaveToken
    \/ DoGetToken
    \/ DoAuthorized
    \/ DoFetchUser

Spec == Init /\ [][Next]_vars

\* The users cache and its lists under the requests of two browsers, one
\* request at a time.
NextCache ==
    \/ DoSaveToken
    \/ DoRevoke
    \/ DoFetchUser
    \/ DoFetchGuilds
    \/ DoFetchConnections
    \/ DoSwitch

SpecCache == Init /\ [][NextCache]_vars

\* The users cache when one fetch_user request overlaps the other requests
\* of two browsers.
NextRace ==
    \/ DoSaveToken
    \/ DoRevoke
    \/ DoFetchUser
    \/ DoSwitch
    \/ DoFetchUserBegin
    \/ DoFetchUserFinish

SpecRace == Init /\ [][NextRace]_vars

(***************************************************************************)
(* Properties.                                                             *)
(***************************************************************************)
\* A step in which operation op ran.
Runs(op) == last'.op = op /\ last'.seq # last.seq

\* The token endpoint was called and answered with a token record.
ExchangeSucceeded(l) == l.exchanged = 1 /\ l.raised # "OAuth2Error"

\* The operation returned a parameter mapping.
ReturnedParams(l) == l.op = "callback" /\ l.raised = "" /\ l.text = ""

\* passed is what jwt.encode produces with key: a JWT signed with key whose
\* payload is as signed.
EncodedWith(passed, key) ==
    /\ IsJwt(passed.sig)
    /\ SigningKey(passed.sig) = key
    /\ passed.body = SignedPayload(passed.sig)

\* C1: a callback that follows create_session(P), carries no provider error,
\* exchanges the code successfully and passes the state that create_session
\* issued returns exactly P.
C1_CallbackReturnsParams ==
    [][ ( /\ last.op = "create_session" /\ last.raised = ""
          /\ Runs("callback")
          /\ last'.request.error = ""
          /\ ExchangeSucceeded(last')
          /\ last'.request.state = Untampered(session[OAUTH2_STATE]) )
        => ( ReturnedParams(last') /\ last'.params = last.args.params ) ]_vars

C3_ProviderErrorReturned ==
    ( last.op = "callback" /\ last.request.error # "" )
    => ( last.raised = "" /\ last.text = last.request.error /\ last.exchanged = 0 )

C3_Witness ==
    /\ last.op = "callback"
    /\ last.request.error = "access_denied"
    /\ last.text = "access_denied"
    /\ last.exchanged = 0

\* C4: create_session with a prompt other than "consent" and an effective
\* scope that meets the passthrough scopes raises, builds no URL and leaves
\* the session as it was.
C4_PassthroughRejectedFirst ==
    ( /\ last.op = "create_session"
      /\ last.args.prompt # "consent"
      /\ (EffectiveScope(last.args.scope, last.args.requestScope)
            \cap DISCORD_PASSTHROUGH_SCOPES) # {} )
    => ( /\ last.raised = "ValueError: passthrough scopes"
         /\ last.url = NoUrl
         /\ session = last.before.session )

C4_Witness ==
    /\ last.op = "create_session"
    /\ last.args.prompt = "none"
    /\ "bot" \in last.args.scope
    /\ last.raised = "ValueError: passthrough scopes"
    /\ OAUTH2_STATE \in DOMAIN session
    /\ session = last.before.session

\* C5: after revoke, authorized is false and the cache holds no entry for the
\* identity the session had, whatever the session and the cache held before.
C5_RevokeDeauthorizes ==
    last.op = "revoke"
    => ( /\ ~authorized(session)
         /\ user_id(last.before.session) \notin users_cache )

C5_Witness ==
    /\ last.op = "revoke"
    /\ authorized(last.before.session)
    /\ user_id(last.before.session) \in last.before.users_cache
    /\ ~authorized(session)
    /\ users_cache = {}

\* C6: revoke returns without raising and leaves none of the raw state, the
\* encoded state and the token record in the session, whichever of them were
\* missing before.
C6_RevokeClearsSession ==
    last.op = "revoke"
    => ( /\ last.raised = ""
         /\ (DOMAIN session) \cap {RAW_STATE, OAUTH2_STATE, OAUTH2_TOKEN} = {} )

C6_Witness ==
    /\ last.op = "revoke"
    /\ DOMAIN last.before.session = {OAUTH2_TOKEN}
    /\ last.before.users_cache = {}
    /\ last.raised = ""
    /\ session = EmptySession

\* C7: create_session in a session that already holds a raw state leaves the
\* stored raw state as it was.
C7_RawStateReused ==
    ( /\ last.op = "create_session" /\ last.raised = ""
      /\ RAW_STATE \in DOMAIN last.before.session )
    => session[RAW_STATE] = last.before.session[RAW_STATE]

\* C8: fetch_user calls the REST API at most once, and not at all when the
\* cache holds the current identity's entry; a fetch_user right after one
\* that returned a user makes no call and returns the same user, so the two
\* make one call in total when the first was a miss.
C8_FetchUserCached ==
    [][ Runs("fetch_user")
        => ( /\ last'.upstream \in {0, 1}
             /\ (user_id(session) \in users_cache => last'.upstream = 0)
             /\ ( (last.op = "fetch_user" /\ last.raised = "")
                  => ( /\ last'.upstream = 0
                       /\ last'.raised = ""
                       /\ last'.text = last.text
                       /\ (last.upstream = 1 => last.upstream + last'.upstream = 1) ) ) ) ]_vars

C8_Witness ==
    /\ last.op = "fetch_user"
    /\ last.raised = ""
    /\ last.upstream = 0
    /\ last.text \in UserIds
    /\ last.text \in last.before.users_cache

\* C9: get_authorization_token right after save_authorization_token(t)
\* returns t, whatever was stored before; it changes neither the session nor
\* the cache and calls neither the token endpoint nor the REST API.
C9_SaveThenGet ==
    [][ Runs("get_authorization_token")
        => ( /\ session' = session
             /\ users_cache' = users_cache
             /\ last'.exchanged = 0 /\ last'.upstream = 0
             /\ (last.op = "save_authorization_token" => last'.token = last.token) ) ]_vars

C9_Witness ==
    /\ last.op = "get_authorization_token"
    /\ last.token \in TokenRecords
    /\ session = last.before.session

\* C10: create_session accepts permissions only when it is absent or a
\* non-negative bitmask (an int, or a discord.Permissions wrapping one); any
\* other value is rejected with the session untouched and no URL built.
C10_PermissionsValidated ==
    ( /\ last.op = "create_session"
      /\ ~( \/ last.args.permissions = PyNone
            \/ ( /\ last.args.permissions.type \in {"int", "Permissions"}
                 /\ last.args.permissions.value >= 0 ) ) )
    => ( /\ last.raised # ""
         /\ last.url = NoUrl
         /\ session = last.before.session )

\* The query parameters of url named name.
ParamsNamed(url, name) == {i \in DOMAIN url.query : url.query[i].name = name}

\* C11: the URL create_session returns carries prompt and the encoded state,
\* and carries permissions, guild_id and disable_guild_select exactly when
\* the caller supplied them, whatever the value supplied.
C11_UrlCarriesSupplied ==
    ( last.op = "create_session" /\ last.raised = "" )
    => ( /\ \E i \in ParamsNamed(last.url, "prompt") :
                last.url.query[i].value = PyStr(last.args.prompt)
         /\ last.url.state = session[OAUTH2_STATE]
         /\ (ParamsNamed(last.url, "permissions") # {} <=> last.args.permissions # PyNone)
         /\ (ParamsNamed(last.url, "guild_id") # {} <=> last.args.guild_id # PyNone)
         /\ (ParamsNamed(last.url, "disable_guild_select") # {}
                <=> last.args.disable_guild_select # PyNone) )

\* The scope create_session falls back to when the caller gives none.
FallbackScope(requestScope) ==
    IF requestScope # {} THEN requestScope ELSE DISCORD_OAUTH_DEFAULT_SCOPES

\* C12 as stated: without a scope list from the caller, the scope of the
\* authorization request and of the passthrough check is the configured
\* default, whatever the inbound request holds.
C12_DefaultScopeUsed ==
    ( last.op = "create_session" /\ last.args.scope = {} )
    => ( /\ (last.raised = "" => last.url.scope = DISCORD_OAUTH_DEFAULT_SCOPES)
         /\ ( last.raised = "ValueError: passthrough scopes"
              <=> ( /\ last.args.prompt # "consent"
                    /\ (DISCORD_OAUTH_DEFAULT_SCOPES \cap DISCORD_PASSTHROUGH_SCOPES) # {} ) ) )

\* C12 amended: without a scope list from the caller, the scope of the
\* authorization request and of the passthrough check is the scope argument
\* of the inbound request when it has one, and the configured default
\* otherwise.
C12_ScopeFallsBack ==
    ( last.op = "create_session" /\ last.args.scope = {} )
    => ( /\ (last.raised = "" => last.url.scope = FallbackScope(last.args.requestScope))
         /\ ( last.raised = "ValueError: passthrough scopes"
              <=> ( /\ last.args.prompt # "consent"
                    /\ (FallbackScope(last.args.requestScope)
                          \cap DISCORD_PASSTHROUGH_SCOPES) # {} ) ) )

C12_Witness ==
    /\ last.op = "create_session"
    /\ last.args.scope = {}
    /\ last.args.requestScope = {"bot"}
    /\ last.raised = ""
    /\ last.url.scope = {"bot"}

C14_StateSingleUse ==
    [][ ( /\ ReturnedParams(last)
          /\ Runs("callback")
          /\ last'.request.state = last.request.state )
        => ~ReturnedParams(last') ]_vars

\* The token key of a session: its record, or that it is absent.
StoredToken(sess) == SessionGet(sess, OAUTH2_TOKEN, "absent")

\* C15: a callback that fails state verification leaves the token record of
\* the session as it was, and does not make the session authorized.
C15_FailedCallbackKeepsToken ==
    ( last.op = "callback" /\ last.raised \in InvalidStateErrors )
    => ( /\ StoredToken(session) = StoredToken(last.before.session)
         /\ (authorized(session) => authorized(last.before.session)) )

\* C16: a session that holds an encoded state holds a raw state, and the
\* encoded state decodes under it.
C16_StoredStateVerifies ==
    OAUTH2_STATE \in DOMAIN session
    => ( /\ RAW_STATE \in DOMAIN session
         /\ jwt_decode(Untampered(session[OAUTH2_STATE]), session[RAW_STATE]).error = "" )

\* C18: the URL holds each of prompt, permissions, guild_id and
\* disable_guild_select at most once.
C18_ParamsAtMostOnce ==
    ( last.op = "create_session" /\ last.raised = "" )
    => \A name \in {"prompt", "permissions", "guild_id", "disable_guild_select"} :
          Cardinality(ParamsNamed(last.url, name)) <= 1

\* The list of the given kind attached to the cached user of the session the
\* last operation started from: "None" when that user is not cached or the
\* list is unset.
ListBefore(kind) ==
    LET user == user_id(last.before.session)
    IN  IF user \in last.before.users_cache
        THEN last.before.attached[user][kind]
        ELSE "None"

ListFetch(op, kind) ==
    last.op = op =>
        IF ListBefore(kind) # "None"
        THEN /\ last.upstream = 0
             /\ last.raised = ""
             /\ last.text = ListBefore(kind)
        ELSE /\ last.upstream = 1
             /\ last.raised \in {"", "HTTPError", "Unauthorized"}
             /\ last.raised = "" =>
                    last.text = UserOfToken(get_authorization_token(last.before.session))

\* C17: fetch_guilds and fetch_connections return the list attached to the
\* cached user without an upstream call when the user is cached and the list
\* is set; when the user is not cached, or the list is unset, they make the
\* upstream call (which returns the list, or fails as the API fails) and do
\* not raise for the missing entry.
C17_ListsHitOrMiss ==
    /\ ListFetch("fetch_guilds", "guilds")
    /\ ListFetch("fetch_connections", "connections")

\* fetch_guilds ran for an authorized session whose user is not cached, and
\* returned the list from the API.
C17_Witness ==
    /\ last.op = "fetch_guilds"
    /\ authorized(last.before.session)
    /\ user_id(last.before.session) \notin last.before.users_cache
    /\ last.upstream = 1
    /\ last.raised = ""
    /\ last.text \in UserIds

\* C19: when a fetch_user request that missed the cache finishes after a
\* revoke for the same identity that began later, the cache holds no entry
\* for that identity.
C19_RevokeWinsRace ==
    [][ ( /\ Runs("fetch_user finishes")
          /\ last'.raised = ""
          /\ inflight.overtaken )
        => last'.text \notin users_cache' ]_vars

\* An operation that inserts a user the cache did not hold.
InsertedNew ==
    /\ last.op \in {"fetch_user", "fetch_user finishes"}
    /\ last.upstream = 1
    /\ last.raised = ""
    /\ last.text \notin last.before.users_cache

\* C20: the users cache never holds more entries than the configured
\* maximum, and inserting a new user into a full cache puts it in place of
\* an entry the cache held.
C20_CacheBounded ==
    /\ Cardinality(users_cache) <= DISCORD_USERS_CACHE_MAX_LIMIT
    /\ ( InsertedNew /\ Cardinality(last.before.users_cache) = DISCORD_USERS_CACHE_MAX_LIMIT )
       => ( /\ last.text \in users_cache
            /\ Cardinality(users_cache) = DISCORD_USERS_CACHE_MAX_LIMIT
            /\ \E gone \in last.before.users_cache : gone \notin users_cache )

\* A user was fetched into a full cache.
C20_Witness ==
    /\ InsertedNew
    /\ Cardinality(last.before.users_cache) = DISCORD_USERS_CACHE_MAX_LIMIT
    /\ last.text \in users_cache

====
